---- MODULE Spec2Model ----
(***************************************************************************)
(* Model of patient_data_research.py: name normalisation, Soundex, the     *)
(* disjoint-set forest, blocking, clustering and the annotation/summary    *)
(* of process_file and main.                                               *)
(*                                                                         *)
(* Python strings are modelled as sequences of one-character strings, so   *)
(* that normalisation and Soundex are computed character by character as   *)
(* the code does.  Python indices are 0-based and kept 0-based: lists over *)
(* record indices are functions with domain 0..n-1.                        *)
(***************************************************************************)
EXTENDS Integers, Sequences, FiniteSets, TLC

VARIABLES
    pc,            \* position of the run
    name,          \* raw name handed to normalize_name (NoName when missing)
    Name_norm,     \* df["Name_norm"] of that record
    Soundex,       \* df["Soundex"] of that record
    parent,        \* DSU.parent
    size,          \* DSU.size
    edges,         \* history: the pairs {a,b} union(a,b) was called on
    df,            \* the normalised data frame rows (DOB_parsed, Gender_norm, Soundex)
    score,         \* fuzz.partial_ratio of the names of every pair of rows
    blocks,        \* detect_duplicates' blocks dict, in insertion order
    cluster_ids,   \* detect_duplicates' cluster_ids list
    Cluster_ID,    \* df["Cluster_ID"], a nullable Int64 column
    Is_Duplicate,  \* df["Is_Duplicate"]
    summary,       \* the Summary sheet written by process_file
    metrics        \* the three metrics shown by main

vars == <<pc, name, Name_norm, Soundex, parent, size, edges, df, score, blocks,
          cluster_ids, Cluster_ID, Is_Duplicate, summary, metrics>>

textVars == <<name, Name_norm, Soundex>>
dsuVars  == <<parent, size, edges>>
pipeVars == <<df, score, blocks, cluster_ids, Cluster_ID, Is_Duplicate, summary, metrics>>

(***************************************************************************)
(* Bounds                                                                  *)
(***************************************************************************)
MaxNameLen == 4      \* longest raw name explored
DSUSize    == 4      \* n of the DSU(n) explored on its own
MaxRecords == 3      \* most rows of a data frame explored

(***************************************************************************)
(* Generic helpers                                                         *)
(***************************************************************************)
Range(f) == {f[x] : x \in DOMAIN f}

RECURSIVE SeqsUpTo(_, _)
SeqsUpTo(S, n) ==
    IF n = 0 THEN {<<>>}
    ELSE LET shorter == SeqsUpTo(S, n - 1)
         IN  shorter \cup {Append(s, c) : s \in {t \in shorter : Len(t) = n - 1}, c \in S}

Take(s, k) == SubSeq(s, 1, IF Len(s) < k THEN Len(s) ELSE k)   \* s[:k]

(***************************************************************************)
(* Characters                                                              *)
(***************************************************************************)
LowerAlpha == <<"a","b","c","d","e","f","g","h","i","j","k","l","m",
                "n","o","p","q","r","s","t","u","v","w","x","y","z">>
UpperAlpha == <<"A","B","C","D","E","F","G","H","I","J","K","L","M",
                "N","O","P","Q","R","S","T","U","V","W","X","Y","Z">>
Digits     == {"0","1","2","3","4","5","6","7","8","9"}

IsLetter(c) == c \in Range(LowerAlpha) \cup Range(UpperAlpha)
IsDigit(c)  == c \in Digits

\* str.lower() and str.upper(), one character at a time
LowerChar(c) ==
    IF c \in Range(UpperAlpha)
    THEN LowerAlpha[CHOOSE i \in DOMAIN UpperAlpha : UpperAlpha[i] = c]
    ELSE c
UpperChar(c) ==
    IF c \in Range(LowerAlpha)
    THEN UpperAlpha[CHOOSE i \in DOMAIN LowerAlpha : LowerAlpha[i] = c]
    ELSE c
Lower(s) == [i \in DOMAIN s |-> LowerChar(s[i])]
Upper(s) == [i \in DOMAIN s |-> UpperChar(s[i])]

\* the regular-expression classes \w and \s of Python's re on str
IsWordChar(c)  == IsLetter(c) \/ IsDigit(c) \/ c = "_"
IsSpaceChar(c) == c \in {" ", "\t"}

(***************************************************************************)
(* normalize_name                                                          *)
(***************************************************************************)
NoName == <<"<NA>">>     \* a missing value (pd.isna); no string has a 4-letter character

\* re.sub(r"[^\w\s]", " ", s)
SubPunct(s) == [i \in DOMAIN s |-> IF IsWordChar(s[i]) \/ IsSpaceChar(s[i]) THEN s[i] ELSE " "]

\* re.sub(r"\s+", " ", s): every maximal run of whitespace becomes one space
RECURSIVE CollapseFrom(_, _, _)
CollapseFrom(s, i, out) ==
    IF i > Len(s) THEN out
    ELSE IF IsSpaceChar(s[i])
         THEN IF i > 1 /\ IsSpaceChar(s[i - 1])
              THEN CollapseFrom(s, i + 1, out)
              ELSE CollapseFrom(s, i + 1, Append(out, " "))
         ELSE CollapseFrom(s, i + 1, Append(out, s[i]))
CollapseSpace(s) == CollapseFrom(s, 1, <<>>)

\* str.strip()
RECURSIVE LStrip(_)
LStrip(s) == IF s # <<>> /\ IsSpaceChar(Head(s)) THEN LStrip(Tail(s)) ELSE s
RECURSIVE RStrip(_)
RStrip(s) == IF s # <<>> /\ IsSpaceChar(s[Len(s)]) THEN RStrip(SubSeq(s, 1, Len(s) - 1)) ELSE s
Strip(s) == RStrip(LStrip(s))

normalize_name(raw) ==
    IF raw = NoName THEN <<>>
    ELSE Strip(CollapseSpace(SubPunct(Lower(raw))))

(***************************************************************************)
(* soundex                                                                 *)
(***************************************************************************)
\* the codes dict: key string |-> digit, in insertion order
codes == << [key |-> {"B","F","P","V"},                     val |-> "1"],
            [key |-> {"C","G","J","K","Q","S","X","Z"},     val |-> "2"],
            [key |-> {"D","T"},                             val |-> "3"],
            [key |-> {"L"},                                 val |-> "4"],
            [key |-> {"M","N"},                             val |-> "5"],
            [key |-> {"R"},                                 val |-> "6"] >>

\* one pass of the loop body "for char in name[1:]" on the running code sndx
SoundexStep(sndx, char) ==
    IF \E k \in DOMAIN codes : char \in codes[k].key
    THEN LET k    == CHOOSE k \in DOMAIN codes :
                        /\ char \in codes[k].key
                        /\ \A h \in 1..(k - 1) : char \notin codes[h].key
             code == codes[k].val
         IN  IF code # sndx[Len(sndx)] THEN Append(sndx, code) ELSE sndx
    ELSE Append(sndx, "0")

RECURSIVE SoundexLoop(_, _, _)
SoundexLoop(nm, i, sndx) ==
    IF i > Len(nm) THEN sndx ELSE SoundexLoop(nm, i + 1, SoundexStep(sndx, nm[i]))

\* sndx.replace("0", "")
RemoveZeros(s) == SelectSeq(s, LAMBDA c : c # "0")

soundex(token) ==
    IF token = <<>> THEN <<>>
    ELSE LET nm   == Upper(token)
             sndx == SoundexLoop(nm, 2, <<nm[1]>>)
         IN  Take(RemoveZeros(sndx) \o <<"0","0","0">>, 4)

\* n.split(" ")[0] if n else ""
FirstToken(n) ==
    IF n = <<>> THEN <<>>
    ELSE IF \E i \in DOMAIN n : n[i] = " "
         THEN SubSeq(n, 1, (CHOOSE i \in DOMAIN n : n[i] = " " /\ \A h \in 1..(i - 1) : n[h] # " ") - 1)
         ELSE n

(***************************************************************************)
(* class DSU                                                               *)
(***************************************************************************)
\* DSU.__init__(n)
DSUInit(n) == [parent |-> [i \in 0..(n - 1) |-> i], size |-> [i \in 0..(n - 1) |-> 1]]

\* DSU.find(a): the while loop with its path halving; gives the forest
\* as find leaves it and the value returned
RECURSIVE DSUFind(_, _)
DSUFind(p, a) ==
    IF p[a] # a
    THEN LET q == [p EXCEPT ![a] = p[p[a]]]
         IN  DSUFind(q, q[a])
    ELSE [parent |-> p, root |-> a]

\* the assignment of union's last line, once pa and pb are settled
DSULink(p, s, pa, pb) ==
    [parent |-> [p EXCEPT ![pb] = pa],
     size   |-> [s EXCEPT ![pa] = s[pa] + s[pb]]]

\* faulty variant of union: re-parents b itself instead of b's root
DSUUnion_LinksArgument(d, a, b) ==
    LET fa == DSUFind(d.parent, a)
        fb == DSUFind(fa.parent, b)
        pa == fa.root
        pb == fb.root
    IN  IF pa = pb THEN [parent |-> fb.parent, size |-> d.size]
        ELSE [parent |-> [fb.parent EXCEPT ![b] = pa],
              size   |-> [d.size EXCEPT ![pa] = d.size[pa] + d.size[pb]]]

\* DSU.union(a, b) on the forest d = [parent, size]
DSUUnion(d, a, b) ==
    LET fa == DSUFind(d.parent, a)
        fb == DSUFind(fa.parent, b)
        pa == fa.root
        pb == fb.root
    IN  IF pa = pb THEN [parent |-> fb.parent, size |-> d.size]
        ELSE IF d.size[pa] < d.size[pb]
             THEN DSULink(fb.parent, d.size, pb, pa)
             ELSE DSULink(fb.parent, d.size, pa, pb)

(***************************************************************************)
(* detect_duplicates: blocking                                             *)
(***************************************************************************)
NaT == <<"NaT">>                       \* pd.NaT, one object equal to itself as a dict key part
NAME_SIMILARITY_THRESHOLD == 65

\* Timestamp.isoformat() of a date <<year, month, day>> normalised to midnight
IsoFormat(d) == <<"T00:00:00", d[1], d[2], d[3]>>

\* the key of lines 75-76 for a row
BlockKey(row) ==
    LET dob_key == IF row.DOB_parsed = NaT THEN NaT ELSE IsoFormat(row.DOB_parsed)
    IN  <<dob_key, row.Gender_norm, Take(row.Soundex, 2)>>

\* faulty variant of the append: a key holding NaT never equals a stored key
BlocksAppend_NaTNeverEqual(bl, key, idx) ==
    IF key[1] # NaT /\ \E k \in DOMAIN bl : bl[k].key = key
    THEN [k \in DOMAIN bl |->
            IF bl[k].key = key
            THEN [key |-> key, indices |-> Append(bl[k].indices, idx)]
            ELSE bl[k]]
    ELSE Append(bl, [key |-> key, indices |-> <<idx>>])

\* blocks[key].append(idx) on a defaultdict(list) kept in insertion order
BlocksAppend(bl, key, idx) ==
    IF \E k \in DOMAIN bl : bl[k].key = key
    THEN [k \in DOMAIN bl |->
            IF bl[k].key = key
            THEN [key |-> key, indices |-> Append(bl[k].indices, idx)]
            ELSE bl[k]]
    ELSE Append(bl, [key |-> key, indices |-> <<idx>>])

\* the loop of lines 74-76 from row idx on
RECURSIVE BuildBlocksFrom(_, _, _)
BuildBlocksFrom(rows, idx, bl) ==
    IF idx \notin DOMAIN rows THEN bl
    ELSE BuildBlocksFrom(rows, idx + 1, BlocksAppend(bl, BlockKey(rows[idx]), idx))

(***************************************************************************)
(* detect_duplicates: unions inside the blocks                             *)
(***************************************************************************)
\* faulty variant of the threshold test: strict comparison
AboveThreshold_Strict(s) == s > NAME_SIMILARITY_THRESHOLD

\* matrix[i][j] >= NAME_SIMILARITY_THRESHOLD
AboveThreshold(s) == s >= NAME_SIMILARITY_THRESHOLD

\* the loops of lines 83-86 over one block, from positions (i, j) on;
\* positions are 1-based here, the indices stored in the block are the rows'
RECURSIVE UnionPairsFrom(_, _, _, _, _)
UnionPairsFrom(d, sc, indices, i, j) ==
    IF i > Len(indices) THEN d
    ELSE IF j > Len(indices) THEN UnionPairsFrom(d, sc, indices, i + 1, i + 2)
    ELSE UnionPairsFrom(
            IF AboveThreshold(sc[<<indices[i], indices[j]>>])
            THEN DSUUnion(d, indices[i], indices[j]) ELSE d,
            sc, indices, i, j + 1)

\* the loop of lines 79-86 over the blocks, from block k on
RECURSIVE UnionBlocksFrom(_, _, _, _)
UnionBlocksFrom(d, sc, bl, k) ==
    IF k > Len(bl) THEN d
    ELSE IF Len(bl[k].indices) < 2 THEN UnionBlocksFrom(d, sc, bl, k + 1)
    ELSE UnionBlocksFrom(UnionPairsFrom(d, sc, bl[k].indices, 1, 2), sc, bl, k + 1)

(***************************************************************************)
(* detect_duplicates: cluster identifiers                                  *)
(***************************************************************************)
\* dict.get(k, 0) and dict[k] = v on a dict modelled as a function
DictGet(m, k) == IF k \in DOMAIN m THEN m[k] ELSE 0
DictSet(m, k, v) == [x \in DOMAIN m \cup {k} |-> IF x = k THEN v ELSE m[x]]

\* line 89 from i on: counts[dsu.find(i)] = counts.get(dsu.find(i), 0) + 1
RECURSIVE CountRoots(_, _, _, _)
CountRoots(p, n, i, counts) ==
    IF i >= n THEN [parent |-> p, counts |-> counts]
    ELSE LET f1 == DSUFind(p, i)
             f2 == DSUFind(f1.parent, i)
         IN  CountRoots(f2.parent, n, i + 1, DictSet(counts, f2.root, DictGet(counts, f1.root) + 1))

\* faulty variant of lines 93-96: the counter advances for every row of a cluster
NumberCluster_AlwaysIncrements(st, i, root) ==
    LET fresh == root \notin DOMAIN st.cluster_map
        cmap  == IF fresh THEN DictSet(st.cluster_map, root, st.cluster_counter)
                 ELSE st.cluster_map
    IN  [cluster_map     |-> cmap,
         cluster_counter |-> st.cluster_counter + 1,
         cluster_ids     |-> [st.cluster_ids EXCEPT ![i] = cmap[root]]]

\* faulty variant of lines 93-96: the root's index is used as the identifier
NumberCluster_RootAsId(st, i, root) ==
    [cluster_map     |-> DictSet(st.cluster_map, root, root),
     cluster_counter |-> st.cluster_counter,
     cluster_ids     |-> [st.cluster_ids EXCEPT ![i] = root]]

\* lines 93-96 for row i whose root has more than one member
NumberCluster(st, i, root) ==
    LET fresh == root \notin DOMAIN st.cluster_map
        cmap  == IF fresh THEN DictSet(st.cluster_map, root, st.cluster_counter)
                 ELSE st.cluster_map
    IN  [cluster_map     |-> cmap,
         cluster_counter |-> IF fresh THEN st.cluster_counter + 1 ELSE st.cluster_counter,
         cluster_ids     |-> [st.cluster_ids EXCEPT ![i] = cmap[root]]]

\* lines 90-96 from i on
RECURSIVE ScanRows(_, _, _, _, _)
ScanRows(p, n, i, counts, st) ==
    IF i >= n THEN [parent |-> p, cluster_ids |-> st.cluster_ids]
    ELSE LET f == DSUFind(p, i)
         IN  ScanRows(f.parent, n, i + 1, counts,
                      IF counts[f.root] > 1 THEN NumberCluster(st, i, f.root) ELSE st)

\* lines 88-96: the forest as the finds leave it, and the cluster_ids list
ClusterIds(p, n) ==
    LET c == CountRoots(p, n, 0, <<>>)
    IN  ScanRows(c.parent, n, 0, c.counts,
                 [cluster_map |-> <<>>, cluster_counter |-> 0,
                  cluster_ids |-> [i \in 0..(n - 1) |-> -1]])

(***************************************************************************)
(* Nullable Int64 values and process_file's columns                        *)
(***************************************************************************)
Int64(v) == [isna |-> FALSE, val |-> v]
Int64NA  == [isna |-> TRUE,  val |-> 0]

\* pd.Series(cluster_ids, dtype="Int64") of line 97: every list element is an int
ToInt64Series(ids) == [i \in DOMAIN ids |-> Int64(ids[i])]

\* faulty variant of line 119: only the notna() test
IsDuplicateOf_NotnaOnly(c) == ~c.isna

\* line 119: df["Cluster_ID"].notna() & (df["Cluster_ID"] >= 0), for one value
IsDuplicateOf(c) == (~c.isna) /\ (c.val >= 0)

\* Series.dropna().nunique()
DropnaNunique(col) == Cardinality({col[i].val : i \in {x \in DOMAIN col : ~col[x].isna}})

\* Series.sum() of a boolean column
SumBool(col) == Cardinality({i \in DOMAIN col : col[i]})

(***************************************************************************)
(* Inputs explored                                                         *)
(***************************************************************************)
RawChars == {"R", "o", "b", "0", "_", ".", " ", "\t"}
RawNames == SeqsUpTo(RawChars, MaxNameLen) \cup {NoName}

R163 == <<"R","1","6","3">>
R150 == <<"R","1","5","0">>
RowSamples ==
    { [DOB_parsed |-> <<2000, 1, 1>>, Gender_norm |-> "male", Soundex |-> R163],
      [DOB_parsed |-> <<2000, 1, 1>>, Gender_norm |-> "male", Soundex |-> R150],
      [DOB_parsed |-> <<2000, 1, 2>>, Gender_norm |-> "male", Soundex |-> R163],
      [DOB_parsed |-> NaT,            Gender_norm |-> "male", Soundex |-> R163],
      [DOB_parsed |-> NaT,            Gender_norm |-> "",     Soundex |-> <<>>] }
ScoreSamples == {NAME_SIMILARITY_THRESHOLD - 1, NAME_SIMILARITY_THRESHOLD}

RowPairs(n) == {pr \in (0..(n - 1)) \X (0..(n - 1)) : pr[1] < pr[2]}

NoText == name = <<>> /\ Name_norm = <<>> /\ Soundex = <<>>
NoDSU  == parent = <<>> /\ size = <<>> /\ edges = {}
NoPipe ==
    /\ df = <<>> /\ score = <<>> /\ blocks = <<>>
    /\ Cluster_ID = <<>> /\ Is_Duplicate = <<>> /\ summary = <<>> /\ metrics = <<>>

(***************************************************************************)
(* Names: normalize_name, then the Soundex of the first token              *)
(***************************************************************************)
InitText ==
    /\ pc = "raw"
    /\ name \in RawNames
    /\ Name_norm = <<>> /\ Soundex = <<>>
    /\ NoDSU /\ NoPipe /\ cluster_ids = <<>>

\* normalize_name(name)
NormalizeName ==
    /\ pc = "raw"
    /\ Name_norm' = normalize_name(name)
    /\ pc' = "normalized"
    /\ UNCHANGED <<name, Soundex, dsuVars, pipeVars>>

\* line 112: soundex(n.split(" ")[0] if n else "")
ComputeSoundex ==
    /\ pc = "normalized"
    /\ Soundex' = soundex(FirstToken(Name_norm))
    /\ pc' = "encoded"
    /\ UNCHANGED <<name, Name_norm, dsuVars, pipeVars>>

NextText == NormalizeName \/ ComputeSoundex
SpecText == InitText /\ [][NextText]_vars

(***************************************************************************)
(* A DSU(n) under any sequence of union and find calls, then numbered      *)
(***************************************************************************)
InitDSU ==
    /\ pc = "dsu"
    /\ parent = DSUInit(DSUSize).parent
    /\ size = DSUInit(DSUSize).size
    /\ edges = {}
    /\ cluster_ids = <<>>
    /\ NoText
    /\ NoPipe

\* union(a, b); a call with a = b links nothing and is not recorded
Union(a, b) ==
    /\ pc = "dsu"
    /\ LET d == DSUUnion([parent |-> parent, size |-> size], a, b)
       IN  parent' = d.parent /\ size' = d.size
    /\ edges' = IF a = b THEN edges ELSE edges \cup {{a, b}}
    /\ UNCHANGED <<pc, textVars, pipeVars>>

\* find(a), kept for its path compression
Find(a) ==
    /\ pc = "dsu"
    /\ parent' = DSUFind(parent, a).parent
    /\ UNCHANGED <<pc, size, edges, textVars, pipeVars>>

\* lines 88-96 of detect_duplicates, on the forest the unions left
AssignClusterIds ==
    /\ pc \in {"dsu", "unioned"}
    /\ LET r == ClusterIds(parent, Cardinality(DOMAIN parent))
       IN  parent' = r.parent /\ cluster_ids' = r.cluster_ids
    /\ pc' = IF pc = "dsu" THEN "numbered" ELSE "assigned"
    /\ UNCHANGED <<size, edges, textVars, df, score, blocks,
                   Cluster_ID, Is_Duplicate, summary, metrics>>

NextDSU ==
    \/ \E a, b \in DOMAIN parent : Union(a, b)
    \/ \E a \in DOMAIN parent : Find(a)
    \/ AssignClusterIds
SpecDSU == InitDSU /\ [][NextDSU]_vars

(***************************************************************************)
(* process_file on a normalised data frame, then main's metrics            *)
(***************************************************************************)
Init ==
    /\ pc = "loaded"
    /\ \E n \in 0..MaxRecords :
          /\ df \in [0..(n - 1) -> RowSamples]
          /\ score \in [RowPairs(n) -> ScoreSamples]
    /\ blocks = <<>>
    /\ cluster_ids = <<>>
    /\ Cluster_ID = <<>> /\ Is_Duplicate = <<>> /\ summary = <<>> /\ metrics = <<>>
    /\ NoText
    /\ NoDSU

\* lines 73-76
BuildBlocks ==
    /\ pc = "loaded"
    /\ blocks' = BuildBlocksFrom(df, 0, <<>>)
    /\ pc' = "blocked"
    /\ UNCHANGED <<textVars, dsuVars, df, score, cluster_ids,
                   Cluster_ID, Is_Duplicate, summary, metrics>>

\* lines 78-86
UnionBlocks ==
    /\ pc = "blocked"
    /\ LET d == UnionBlocksFrom(DSUInit(Cardinality(DOMAIN df)), score, blocks, 1)
       IN  parent' = d.parent /\ size' = d.size
    /\ pc' = "unioned"
    /\ UNCHANGED <<edges, textVars, pipeVars>>

\* lines 97, 118 and 119
Annotate ==
    /\ pc = "assigned"
    /\ Cluster_ID' = ToInt64Series(cluster_ids)
    /\ Is_Duplicate' = [i \in DOMAIN cluster_ids |-> IsDuplicateOf(ToInt64Series(cluster_ids)[i])]
    /\ pc' = "annotated"
    /\ UNCHANGED <<textVars, dsuVars, df, score, blocks, cluster_ids, summary, metrics>>

\* lines 131-135
WriteSummary ==
    /\ pc = "annotated"
    /\ summary' = [Total_Records      |-> Cardinality(DOMAIN df),
                   Duplicate_Records  |-> SumBool(Is_Duplicate),
                   Duplicate_Clusters |-> DropnaNunique(Cluster_ID)]
    /\ pc' = "written"
    /\ UNCHANGED <<textVars, dsuVars, df, score, blocks, cluster_ids,
                   Cluster_ID, Is_Duplicate, metrics>>

\* lines 191-193 of main, on the df_out process_file returned
ShowMetrics ==
    /\ pc = "written"
    /\ metrics' = [total    |-> Cardinality(DOMAIN Cluster_ID),
                   dupes    |-> SumBool(Is_Duplicate),
                   clusters |-> DropnaNunique(Cluster_ID)]
    /\ pc' = "shown"
    /\ UNCHANGED <<textVars, dsuVars, df, score, blocks, cluster_ids,
                   Cluster_ID, Is_Duplicate, summary>>

Next ==
    \/ BuildBlocks
    \/ UnionBlocks
    \/ AssignClusterIds
    \/ Annotate
    \/ WriteSummary
    \/ ShowMetrics
Spec == Init /\ [][Next]_vars

(***************************************************************************)
(* Vocabulary of the properties                                            *)
(***************************************************************************)
Rows == DOMAIN parent                       \* the indices of the forest

Min(S) == CHOOSE x \in S : \A y \in S : x <= y

\* the indices linked to those of S by the pairs of E, directly or transitively
RECURSIVE Reach(_, _)
Reach(E, S) ==
    LET T == S \cup {y \in UNION E : \E x \in S : {x, y} \in E}
    IN  IF T = S THEN S ELSE Reach(E, T)
Component(E, a) == Reach(E, {a})

\* the root of a, read off the parent pointers without changing them
RECURSIVE RootOf(_, _)
RootOf(p, a) == IF p[a] = a THEN a ELSE RootOf(p, p[a])
SetOf(a) == {b \in Rows : RootOf(parent, b) = RootOf(parent, a)}
MultiSets == {SetOf(a) : a \in {x \in Rows : Cardinality(SetOf(x)) > 1}}

\* the identifier cluster_ids gives to the rows of S, when they agree on one
IdOf(S) == cluster_ids[Min(S)]

\* two rows agree on date of birth (or both unknown), gender and Soundex prefix
SameBlockingFields(r1, r2) ==
    /\ r1.DOB_parsed = r2.DOB_parsed
    /\ r1.Gender_norm = r2.Gender_norm
    /\ Take(r1.Soundex, 2) = Take(r2.Soundex, 2)

\* the pairs of rows that share a blocking key and score at least the threshold
SimilarPairs ==
    {{pr[1], pr[2]} : pr \in {q \in DOMAIN score :
        /\ SameBlockingFields(df[q[1]], df[q[2]])
        /\ score[q] >= 65}}

\* a cluster identifier is a non-negative integer
HasClusterId(i) == (~Cluster_ID[i].isna) /\ Cluster_ID[i].val \in Nat

Annotated == pc \in {"annotated", "written", "shown"}

(***************************************************************************)
(* C1                                                                      *)
(***************************************************************************)
\* C1: after any sequence of union and find calls, find(a) == find(b) exactly
\* when a and b are linked, directly or transitively, by the union calls made
\* so far; this holds after every find as well, so path compression never
\* changes which indices share a root.
C1_FindAgreesWithUnions ==
    \A a, b \in Rows :
        LET fa == DSUFind(parent, a)
            fb == DSUFind(fa.parent, b)
        IN  (fa.root = fb.root) <=> (b \in Component(edges, a))

\* after unions, two indices are linked only transitively and share a root
\* that is neither of them, and a third index is linked to neither
C1_Witness ==
    /\ pc = "dsu"
    /\ \E a, b, c \in Rows :
          /\ a # b /\ {a, b} \notin edges /\ b \in Component(edges, a)
          /\ RootOf(parent, a) \notin {a, b} /\ RootOf(parent, a) = RootOf(parent, b)
          /\ c \notin Component(edges, a) /\ RootOf(parent, c) # RootOf(parent, a)

(***************************************************************************)
(* C3                                                                      *)
(***************************************************************************)
\* C3: the identifiers of the sets of size > 1 are exactly 0..k-1, one per
\* set, and a set whose lowest index is smaller has the smaller identifier.
C3_IdsSequentialInScanOrder ==
    pc = "numbered" =>
        LET k == Cardinality(MultiSets)
        IN  /\ \A S \in MultiSets : \A i \in S : cluster_ids[i] = IdOf(S)
            /\ {IdOf(S) : S \in MultiSets} = 0..(k - 1)
            /\ \A S, T \in MultiSets : Min(S) < Min(T) => IdOf(S) < IdOf(T)

\* two clusters numbered 0 and 1, the first one rooted at an index that is
\* not its lowest
C3_Witness ==
    /\ pc = "numbered"
    /\ Cardinality(MultiSets) = 2
    /\ \E S, T \in MultiSets :
          /\ Min(S) < Min(T) /\ IdOf(S) = 0 /\ IdOf(T) = 1
          /\ RootOf(parent, Min(S)) > Min(T)

(***************************************************************************)
(* C6                                                                      *)
(***************************************************************************)
\* the identifiers as a function of the set of linked pairs alone
CanonicalIds(E, V) ==
    [i \in V |->
        IF Cardinality(Component(E, i)) > 1
        THEN Cardinality({Min(Component(E, j)) : j \in
                {x \in V : /\ Cardinality(Component(E, x)) > 1
                           /\ Min(Component(E, x)) < Min(Component(E, i))}})
        ELSE -1]

\* C6: whatever order the unions were applied in, cluster_ids is the one
\* list determined by the set of linked pairs and the ascending scan.
C6_IdsIndependentOfUnionOrder ==
    pc = "numbered" => cluster_ids = CanonicalIds(edges, Rows)

\* a numbering made on a forest whose first cluster is rooted at its highest
\* index and whose second cluster is rooted at its lowest
C6_Witness ==
    /\ pc = "numbered"
    /\ \E a, b \in Rows :
          /\ cluster_ids[a] = 0 /\ cluster_ids[b] = 1
          /\ RootOf(parent, a) = a /\ \A x \in SetOf(a) : x <= a
          /\ RootOf(parent, b) = b /\ \A x \in SetOf(b) : x >= b

(***************************************************************************)
(* C8                                                                      *)
(***************************************************************************)
\* the positions <<block, place>> at which row i is listed
PlacesOf(i) ==
    {pl \in {<<k, h>> : k \in DOMAIN blocks, h \in 1..Cardinality(DOMAIN df)} :
        pl[2] \in DOMAIN blocks[pl[1]].indices /\ blocks[pl[1]].indices[pl[2]] = i}

\* C8: the blocks partition the row indices: every row is listed exactly
\* once, nothing else is listed, and rows with equal date of birth (or both
\* unknown), gender and Soundex prefix are in the same block.
C8_BlocksPartitionRows ==
    pc # "loaded" =>
        /\ \A i \in DOMAIN df : Cardinality(PlacesOf(i)) = 1
        /\ \A k \in DOMAIN blocks : Range(blocks[k].indices) \subseteq DOMAIN df
        /\ \A i, j \in DOMAIN df :
              SameBlockingFields(df[i], df[j]) =>
                  \E k \in DOMAIN blocks : {i, j} \subseteq Range(blocks[k].indices)

\* two rows of unknown date of birth share a block, and a row with empty
\* gender and empty Soundex code has a block of its own
C8_Witness ==
    /\ pc = "blocked"
    /\ Len(blocks) = 2
    /\ \E i, j, h \in DOMAIN df :
          /\ i # j /\ df[i].DOB_parsed = NaT /\ df[j].DOB_parsed = NaT
          /\ \E k \in DOMAIN blocks : blocks[k].indices = <<i, j>>
          /\ df[h].Gender_norm = "" /\ df[h].Soundex = <<>>
          /\ \E k \in DOMAIN blocks : blocks[k].indices = <<h>>

C4_SingletonsHaveNullId ==
    Annotated =>
        \A i \in DOMAIN df : Cardinality(SetOf(i)) = 1 => Cluster_ID[i].isna

\* C5: the Duplicate_Clusters of the summary, and the clusters metric of
\* main, equal the number of disjoint sets of size > 1.
C5_ClusterCountIsMultiSetCount ==
    /\ pc \in {"written", "shown"} => summary.Duplicate_Clusters = Cardinality(MultiSets)
    /\ pc = "shown" => metrics.clusters = Cardinality(MultiSets)

(***************************************************************************)
(* C9, C10                                                                 *)
(***************************************************************************)
IsLowerOrDigit(c) == c \in Range(LowerAlpha) \cup Digits

\* C9: for a non-empty token of lowercase letters and digits the code has
\* exactly 4 characters, the uppercased first character of the token and
\* three digits; for the empty token it is empty.
C9_SoundexShape ==
    pc = "encoded" =>
        LET token == FirstToken(Name_norm)
        IN  IF token = <<>> THEN Soundex = <<>>
            ELSE (\A i \in DOMAIN token : IsLowerOrDigit(token[i])) =>
                    /\ Len(Soundex) = 4
                    /\ Soundex[1] = UpperChar(token[1])
                    /\ \A i \in 2..4 : Soundex[i] \in Digits

\* C10: the normalised name holds only lowercase letters, digits and
\* single spaces, with no space at either end; a missing name gives the
\* empty string.
C10_NormalizedNameShape ==
    pc # "raw" =>
        /\ \A i \in DOMAIN Name_norm : IsLowerOrDigit(Name_norm[i]) \/ Name_norm[i] = " "
        /\ Name_norm # <<>> => Name_norm[1] # " " /\ Name_norm[Len(Name_norm)] # " "
        /\ \A i \in 1..(Len(Name_norm) - 1) : ~(Name_norm[i] = " " /\ Name_norm[i + 1] = " ")
        /\ name = NoName => Name_norm = <<>>

====
